---- MODULE Spec2Model ----
(***************************************************************************)
(* A model of the Blueflood client of bluefloodclient/client.py: the       *)
(* token cache, the service catalog, the URL resolution and the            *)
(* reauthenticate-once protocol of Blueflood.request.                      *)
(*                                                                         *)
(* A Python value that may be None is modelled as a sequence of length at  *)
(* most one: None is <<>>, a value x is <<x>>.  A dictionary is a function *)
(* whose domain is its set of keys.  The identity service and the          *)
(* data-plane service are the environment: their responses are the inputs  *)
(* of the actions.  The client is single threaded, so one operation runs   *)
(* at a time; request() is split at the points where it blocks on the      *)
(* data-plane service.                                                     *)
(***************************************************************************)
EXTENDS Naturals, Sequences, FiniteSets, TLC

VARIABLES
    phase,            \* "new": __init__ has assigned the fields (line 88); "ready"; "failed"
    _token,           \* self._token
    read_service,     \* self.read_service
    ingest_service,   \* self.ingest_service
    _read_url,        \* self._read_url
    _ingest_url,      \* self._ingest_url
    region,           \* self.region
    pc,               \* position of the running request(): "idle", "await1", "await2"
    kwargs_headers,   \* kwargs['headers'] of the running request()
    wire,             \* the HTTP messages sent by the current (or last) operation
    result,           \* what the last operation returned or raised
    entry,            \* the cache as it was when the current (or last) operation was entered
    hist,             \* what happened to the token since: the last token returned, invalidation
    catalog_seen      \* the read and ingest entries of the last serviceCatalog that was stored

vars == <<phase, _token, read_service, ingest_service, _read_url, _ingest_url,
          region, pc, kwargs_headers, wire, result, entry, hist, catalog_seen>>

----------------------------------------------------------------------------
(* Bounds of the environment. *)

\* Number of distinct token ids the identity service issues.
NumTokens == 2

\* Largest number of entries of a serviceCatalog.
MaxCatalog == 2

----------------------------------------------------------------------------
(* Python values. *)

None == <<>>

Some(x) == <<x>>

\* dict.update: the keys of b win.
Update(a, b) == [k \in (DOMAIN a) \cup (DOMAIN b) |-> IF k \in DOMAIN b THEN b[k] ELSE a[k]]

\* d[k] = v
SetItem(d, k, v) == Update(d, k :> v)

\* Python values that are handed to json.dumps, tagged with their type: a str, a dict
\* (a Datapoint) and a list of such values.
PyStr(s) == [type |-> "str", val |-> s]

PyDict(d) == [type |-> "dict", val |-> d]

PyList(xs) == [type |-> "list", val |-> xs]

\* isinstance(v, list)
is_list(v) == v.type = "list"

\* json.dumps of a Datapoint, its keys in one fixed order.
dumps_datapoint(d) ==
    "{\"metricName\": \"" \o d.metricName \o "\", \"metricValue\": " \o ToString(d.metricValue)
    \o ", \"collectionTime\": " \o ToString(d.collectionTime)
    \o ", \"ttlInSeconds\": " \o ToString(d.ttlInSeconds)
    \o (IF "unit" \in DOMAIN d THEN ", \"unit\": \"" \o d.unit \o "\"" ELSE "")
    \o "}"

RECURSIVE dumps(_)
RECURSIVE dumps_from(_, _)

\* json.dumps: the JSON text of a value.
dumps(v) ==
    CASE v.type = "list" -> "[" \o dumps_from(v.val, 1) \o "]"
      [] v.type = "str" -> "\"" \o v.val \o "\""
      [] v.type = "dict" -> dumps_datapoint(v.val)

\* The JSON texts of the items of a list from position i on, separated by ", ".
dumps_from(xs, i) ==
    IF i > Len(xs) THEN ""
    ELSE (IF i > 1 THEN ", " ELSE "") \o dumps(xs[i]) \o dumps_from(xs, i + 1)

\* '%s' % v for a string or None.
percent_s(v) == IF v = None THEN "None" ELSE v[1]

TokenNames == <<"tokA", "tokB", "tokC", "tokD">>

Tokens == {TokenNames[i] : i \in 1..NumTokens}

Regions == {"IAD", "ORD"}

base_headers == ("Accept" :> "application/json") @@ ("Content-Type" :> "application/json")

ingest_name == "cloudMetricsIngest"

read_name == "cloudMetrics"

\* The marker of a catalog entry that has no 'name' key.
NoName == "<no name key>"

\* The endpoint lists the identity service hands out.
EndpointLists ==
    { <<[region |-> "ORD", publicURL |-> "https://ord.example"]>>,
      <<[region |-> "IAD", publicURL |-> "https://iad1.example"],
        [region |-> "ORD", publicURL |-> "https://ord.example"],
        [region |-> "IAD", publicURL |-> "https://iad2.example"]>> }

\* The well-formed entries of a catalog: the two services on each endpoint list, and
\* a service the client does not use.
CatalogEntries ==
    [name : {ingest_name, read_name}, endpoints : EndpointLists]
    \cup {[name |-> "cloudFiles", endpoints |-> <<>>]}

SeqsUpTo(S, n) == UNION {[1..k -> S] : k \in 0..n}

\* The catalogs of the identity service: every catalog of at most MaxCatalog entries.
Catalogs == SeqsUpTo(CatalogEntries, MaxCatalog)

\* The catalogs of the identity service while request() is examined: an empty one, one
\* with both services, and one whose second entry has no 'name' key.
RequestCatalogs ==
    {<<>>,
     <<[name |-> read_name,
        endpoints |-> <<[region |-> "IAD", publicURL |-> "https://iad1.example"]>>],
       [name |-> ingest_name,
        endpoints |-> <<[region |-> "IAD", publicURL |-> "https://iad1.example"]>>]>>,
     <<[name |-> read_name,
        endpoints |-> <<[region |-> "ORD", publicURL |-> "https://ord.example"]>>],
       [name |-> NoName, endpoints |-> <<>>]>>}

\* The catalogs of the identity service while the convenience operations are examined:
\* both services in both regions, both services in ORD only, and no service.
CallCatalogs ==
    {<<[name |-> read_name,
        endpoints |-> <<[region |-> "ORD", publicURL |-> "https://ord.read.example"],
                        [region |-> "IAD", publicURL |-> "https://iad.read.example"]>>],
       [name |-> ingest_name,
        endpoints |-> <<[region |-> "ORD", publicURL |-> "https://ord.ingest.example"],
                        [region |-> "IAD", publicURL |-> "https://iad.ingest.example"]>>]>>,
     <<[name |-> read_name,
        endpoints |-> <<[region |-> "ORD", publicURL |-> "https://ord.read.example"]>>],
       [name |-> ingest_name,
        endpoints |-> <<[region |-> "ORD", publicURL |-> "https://ord.ingest.example"]>>]>>,
     <<>>}

\* The answers of the identity service to POST {auth_url}/tokens, its catalogs drawn from C:
\* an error status, a body without the token id, a body without serviceCatalog, a full body.
AuthResponsesOver(C) ==
    {[status |-> 401, hasId |-> FALSE, id |-> "", hasCatalog |-> FALSE, catalog |-> <<>>],
     [status |-> 200, hasId |-> FALSE, id |-> "", hasCatalog |-> FALSE, catalog |-> <<>>]}
    \cup [status : {200}, hasId : {TRUE}, id : Tokens, hasCatalog : {FALSE}, catalog : {<<>>}]
    \cup [status : {200}, hasId : {TRUE}, id : Tokens, hasCatalog : {TRUE}, catalog : C]

\* The answers of the identity service while request() is examined.
RequestAuthResponses == AuthResponsesOver(RequestCatalogs)

\* The answers of the identity service while the catalog is examined.
CatalogAuthResponses == AuthResponsesOver(Catalogs)

\* The answers of the identity service while the convenience operations are examined:
\* a refusal, and the full bodies.
CallAuthResponses == {r \in AuthResponsesOver(CallCatalogs) : r.status = 401 \/ r.hasCatalog}

\* The answer that stands for "the identity service is not asked".
NotAsked == [status |-> 401, hasId |-> FALSE, id |-> "", hasCatalog |-> FALSE, catalog |-> <<>>]

\* The answers get_token can meet on the cache tok: none is read while a token is cached.
Asked(tok, AR) == IF tok = <<>> THEN AR ELSE {NotAsked}

\* The answers of the data-plane service.
DataResponses ==
    [status : {200}, body : {"json", "notjson", ""}]
    \cup [status : {401, 404, 500}, body : {""}]

\* The headers argument of request(): None or a dictionary.
CallerHeaders ==
    {None,
     Some("X-Auth-Token" :> "caller-token"),
     Some("Accept" :> "text/plain"),
     Some("X-Trace" :> "abc")}

Overrides == {None, Some("https://override.example")}

----------------------------------------------------------------------------
(* The session: token and catalog. *)

\* requests' Response.raise_for_status raises for 4xx and 5xx.
raises_for_status(status) == status >= 400 /\ status < 600

\* The entries of a catalog with a given name (what the response holds).
EntriesNamed(catalog, name) == {catalog[i] : i \in {j \in DOMAIN catalog : catalog[j].name = name}}

\* Blueflood.update_catalog: the loop over the catalog, from entry i on.
RECURSIVE update_catalog_from(_, _, _, _)
update_catalog_from(rs, is, catalog, i) ==
    IF i > Len(catalog)
    THEN [read_service |-> rs, ingest_service |-> is, raised |-> FALSE]
    ELSE LET s == catalog[i] IN
         IF s.name = NoName
         THEN [read_service |-> rs, ingest_service |-> is, raised |-> TRUE]
         ELSE IF s.name = ingest_name
         THEN update_catalog_from(rs, Some(s), catalog, i + 1)
         ELSE IF s.name = read_name
         THEN update_catalog_from(Some(s), is, catalog, i + 1)
         ELSE update_catalog_from(rs, is, catalog, i + 1)

update_catalog(rs, is, catalog) == update_catalog_from(rs, is, catalog, 1)

\* The message of an identity exchange as the wire saw it: the status and the token id of
\* the answer, and whether get_token returned normally after it.
AuthMessage(resp, ok) ==
    [dest |-> "auth", headers |-> base_headers, status |-> resp.status,
     id |-> IF resp.status = 200 /\ resp.hasId THEN Some(resp.id) ELSE None,
     ok |-> ok]

\* The read and the ingest entries a catalog holds.
Seen(catalog) ==
    [reads |-> EntriesNamed(catalog, read_name), ingests |-> EntriesNamed(catalog, ingest_name)]

\* Blueflood.get_token, lines 144-165: the identity exchange, the service answering resp.
\* The token is stored (line 163) before the catalog is read (line 164).
exchange(tok, rs, is, resp) ==
    IF raises_for_status(resp.status)
    THEN [token |-> tok, read_service |-> rs, ingest_service |-> is,
          kind |-> "raise", exc |-> "HTTPError", status |-> resp.status, value |-> None,
          sent |-> <<AuthMessage(resp, FALSE)>>]
    ELSE IF ~resp.hasId
    THEN [token |-> tok, read_service |-> rs, ingest_service |-> is,
          kind |-> "raise", exc |-> "KeyError", status |-> 0, value |-> None,
          sent |-> <<AuthMessage(resp, FALSE)>>]
    ELSE IF ~resp.hasCatalog
    THEN [token |-> Some(resp.id), read_service |-> rs, ingest_service |-> is,
          kind |-> "raise", exc |-> "KeyError", status |-> 0, value |-> None,
          sent |-> <<AuthMessage(resp, FALSE)>>]
    ELSE LET u == update_catalog(rs, is, resp.catalog) IN
         IF u.raised
         THEN [token |-> Some(resp.id), read_service |-> u.read_service,
               ingest_service |-> u.ingest_service,
               kind |-> "raise", exc |-> "KeyError", status |-> 0, value |-> None,
               sent |-> <<AuthMessage(resp, FALSE)>>]
         ELSE [token |-> Some(resp.id), read_service |-> u.read_service,
               ingest_service |-> u.ingest_service,
               kind |-> "return", exc |-> "", status |-> 0, value |-> Some(resp.id),
               sent |-> <<AuthMessage(resp, TRUE)>>]

\* A get_token that asks the identity service on every call.
get_token_uncached(tok, rs, is, resp) == exchange(tok, rs, is, resp)

\* Blueflood.get_token on the cache (tok, rs, is): the cached token if there is one
\* (lines 141-142), the identity exchange otherwise.
get_token(tok, rs, is, resp) ==
    IF tok # None
    THEN [token |-> tok, read_service |-> rs, ingest_service |-> is,
          kind |-> "return", exc |-> "", status |-> 0, value |-> tok, sent |-> <<>>]
    ELSE exchange(tok, rs, is, resp)

\* catalog_seen after a get_token call with outcome g on the answer resp.
AfterExchange(seen, g, resp) ==
    IF g.sent # <<>> /\ g.kind = "return" THEN Seen(resp.catalog) ELSE seen

\* An invalidate_token that leaves the token in place.
invalidate_token_noop(tok) == tok

\* Blueflood.invalidate_token
invalidate_token(tok) == None

----------------------------------------------------------------------------
(* URL resolution. *)

\* Blueflood.url_for_region: the first endpoint of the region, None when the loop ends.
RECURSIVE url_for_region_from(_, _, _)
url_for_region_from(endpoints, reg, i) ==
    IF i > Len(endpoints) THEN None
    ELSE IF reg = endpoints[i].region THEN Some(endpoints[i].publicURL)
    ELSE url_for_region_from(endpoints, reg, i + 1)

url_for_region(service, reg) == url_for_region_from(service.endpoints, reg, 1)

\* A resolution that looks at the catalog before the override.
resolve_url_catalog_first(override, service, reg, what) ==
    IF service # None
    THEN [kind |-> "return", exc |-> "", value |-> url_for_region(service[1], reg),
          catalog_read |-> TRUE]
    ELSE IF override # None
    THEN [kind |-> "return", exc |-> "", value |-> override, catalog_read |-> TRUE]
    ELSE [kind |-> "raise", exc |-> what, value |-> None, catalog_read |-> TRUE]

\* A resolution that returns None when the service is missing.
resolve_url_none(override, service, reg, what) ==
    IF override # None
    THEN [kind |-> "return", exc |-> "", value |-> override, catalog_read |-> FALSE]
    ELSE IF service # None
    THEN [kind |-> "return", exc |-> "", value |-> url_for_region(service[1], reg),
          catalog_read |-> TRUE]
    ELSE [kind |-> "return", exc |-> "", value |-> None, catalog_read |-> TRUE]

\* read_url (lines 190-194) and ingest_url (lines 204-208) are the same code on
\* (override, service); what is the message of the exception.  catalog_read tells
\* whether the service attribute was read.
resolve_url(override, service, reg, what) ==
    IF override # None
    THEN [kind |-> "return", exc |-> "", value |-> override, catalog_read |-> FALSE]
    ELSE IF service # None
    THEN [kind |-> "return", exc |-> "", value |-> url_for_region(service[1], reg),
          catalog_read |-> TRUE]
    ELSE [kind |-> "raise", exc |-> what, value |-> None, catalog_read |-> TRUE]

\* Blueflood.read_url
read_url(override, service, reg) == resolve_url(override, service, reg, "No read service found")

\* Blueflood.ingest_url
ingest_url(override, service, reg) == resolve_url(override, service, reg, "No ingest service found")

----------------------------------------------------------------------------
(* Bookkeeping of the observations. *)

\* The convenience operation (find_metrics, ingest, get_metrics) that made the call of
\* request(), and its argument; "none" when request() is called directly.
Call(op, arg) == [op |-> op, arg |-> arg]

NoCall == Call("none", None)

\* The cache as a token operation (get_token, request, __init__) finds it, and the
\* headers argument of request().
Snapshot(headers) ==
    [token |-> _token, lastGot |-> hist.lastGot, invalidated |-> hist.invalidated,
     hadToken |-> hist.hadToken, headers |-> headers, call |-> NoCall]

\* The entry of an operation that does not read the token.
NoEntry ==
    [token |-> None, lastGot |-> None, invalidated |-> FALSE, hadToken |-> FALSE,
     headers |-> None, call |-> NoCall]

\* hist after a get_token call with outcome g: the token it returned.
AfterGet(h, g) ==
    [lastGot |-> IF g.kind = "return" THEN g.value ELSE h.lastGot,
     invalidated |-> FALSE, hadToken |-> FALSE]

\* hist after invalidate_token on the cache tok: no token was returned since, and
\* whether an invalidation since the last get_token dropped a token.
AfterInvalidate(h, tok) ==
    [lastGot |-> None, invalidated |-> TRUE,
     hadToken |-> (h.invalidated /\ h.hadToken) \/ tok # None]

\* What an operation returned (kind "return", value) or raised (kind "raise", exc, status);
\* arg is the region asked of read_url or ingest_url.
Result(op, arg, kind, exc, status, value, catalog_read) ==
    [op |-> op, arg |-> arg, kind |-> kind, exc |-> exc, status |-> status,
     value |-> value, catalog_read |-> catalog_read]

NoResult == Result("none", "", "none", "", 0, None, FALSE)

Pending == Result("request", "", "pending", "", 0, None, FALSE)

\* A data-plane request as the wire saw it; status and body are those of its answer
\* (0 and "" while there is none).
DataMessage(headers) ==
    [dest |-> "data", headers |-> headers, status |-> 0, id |-> None, ok |-> FALSE,
     body |-> ""]

\* The arguments func(url, **kwargs) gets besides the headers: the url, the function of
\* requests, kwargs['params'] and kwargs['data'] (None when the key is not set).
Sent(url, method, params, data) ==
    [url |-> url, method |-> method, params |-> params, data |-> data]

\* The same of a message m of the wire.
SentOf(m) == Sent(m.url, m.method, m.params, m.data)

\* The last message of the wire answered with resp.
Answered(w, resp) == [w EXCEPT ![Len(w)].status = resp.status, ![Len(w)].body = resp.body]

----------------------------------------------------------------------------
(* The state machine.  AR is the set of answers of the identity service. *)

Init ==
    /\ phase = "new"
    /\ _token = None
    /\ read_service = None
    /\ ingest_service = None
    /\ _read_url \in Overrides
    /\ _ingest_url \in Overrides
    /\ region \in Regions
    /\ pc = "idle"
    /\ kwargs_headers = base_headers
    /\ wire = <<>>
    /\ result = NoResult
    /\ entry = NoEntry
    /\ hist = [lastGot |-> None, invalidated |-> FALSE, hadToken |-> FALSE]
    /\ catalog_seen = [reads |-> {}, ingests |-> {}]

\* A constructor that leaves the first identity exchange to the first request.
ConstructLazy(AR) ==
    /\ phase = "new"
    /\ phase' = "ready"
    /\ wire' = <<>>
    /\ result' = Result("__init__", "", "return", "", 0, None, FALSE)
    /\ entry' = Snapshot(None)
    /\ UNCHANGED <<_token, read_service, ingest_service, _read_url, _ingest_url, region,
                   pc, kwargs_headers, hist, catalog_seen>>

\* Blueflood.__init__, line 89: the constructor gets a token.
Construct(AR) ==
    /\ phase = "new"
    /\ \E resp \in Asked(_token, AR) :
         LET g == get_token(_token, read_service, ingest_service, resp) IN
         /\ phase' = IF g.kind = "return" THEN "ready" ELSE "failed"
         /\ _token' = g.token
         /\ read_service' = g.read_service
         /\ ingest_service' = g.ingest_service
         /\ wire' = g.sent
         /\ result' = Result("__init__", "", g.kind, g.exc, g.status, None, FALSE)
         /\ hist' = AfterGet(hist, g)
         /\ catalog_seen' = AfterExchange(catalog_seen, g, resp)
    /\ entry' = Snapshot(None)
    /\ UNCHANGED <<_read_url, _ingest_url, region, pc, kwargs_headers>>

\* A call of get_token() by the user of the client.
GetToken(AR) ==
    /\ phase = "ready" /\ pc = "idle"
    /\ \E resp \in Asked(_token, AR) :
         LET g == get_token(_token, read_service, ingest_service, resp) IN
         /\ _token' = g.token
         /\ read_service' = g.read_service
         /\ ingest_service' = g.ingest_service
         /\ wire' = g.sent
         /\ result' = Result("get_token", "", g.kind, g.exc, g.status, g.value, FALSE)
         /\ hist' = AfterGet(hist, g)
         /\ catalog_seen' = AfterExchange(catalog_seen, g, resp)
    /\ entry' = Snapshot(None)
    /\ UNCHANGED <<phase, _read_url, _ingest_url, region, pc, kwargs_headers>>

\* An invalidate_token() that forgets the catalog with the token.
InvalidateTokenAndCatalog ==
    /\ phase = "ready" /\ pc = "idle"
    /\ _token' = invalidate_token(_token)
    /\ read_service' = None
    /\ ingest_service' = None
    /\ wire' = <<>>
    /\ result' = Result("invalidate_token", "", "return", "", 0, None, FALSE)
    /\ entry' = NoEntry
    /\ hist' = AfterInvalidate(hist, _token)
    /\ UNCHANGED <<phase, _read_url, _ingest_url, region, pc, kwargs_headers, catalog_seen>>

\* A call of invalidate_token() by the user of the client.
InvalidateToken ==
    /\ phase = "ready" /\ pc = "idle"
    /\ _token' = invalidate_token(_token)
    /\ wire' = <<>>
    /\ result' = Result("invalidate_token", "", "return", "", 0, None, FALSE)
    /\ entry' = NoEntry
    /\ hist' = AfterInvalidate(hist, _token)
    /\ UNCHANGED <<phase, read_service, ingest_service, _read_url, _ingest_url, region,
                   pc, kwargs_headers, catalog_seen>>

\* A call of read_url(region).
ReadUrl ==
    /\ phase = "ready" /\ pc = "idle"
    /\ \E reg \in Regions :
         LET r == read_url(_read_url, read_service, reg) IN
         result' = Result("read_url", reg, r.kind, r.exc, 0, r.value, r.catalog_read)
    /\ wire' = <<>>
    /\ entry' = NoEntry
    /\ UNCHANGED <<phase, _token, read_service, ingest_service, _read_url, _ingest_url,
                   region, pc, kwargs_headers, hist, catalog_seen>>

\* A call of ingest_url(region).
IngestUrl ==
    /\ phase = "ready" /\ pc = "idle"
    /\ \E reg \in Regions :
         LET r == ingest_url(_ingest_url, ingest_service, reg) IN
         result' = Result("ingest_url", reg, r.kind, r.exc, 0, r.value, r.catalog_read)
    /\ wire' = <<>>
    /\ entry' = NoEntry
    /\ UNCHANGED <<phase, _token, read_service, ingest_service, _read_url, _ingest_url,
                   region, pc, kwargs_headers, hist, catalog_seen>>

-----
(* Blueflood.request. *)

\* Lines 241-251: the headers of the request.
request_headers(tokenValue, headers) ==
    LET _headers == Update(base_headers, "X-Auth-Token" :> tokenValue) IN
    IF headers # None THEN Update(_headers, headers[1]) ELSE _headers

\* A replay that sends the headers of the first attempt again.
replay_headers_stale(kwargsHeaders, tokenValue) == kwargsHeaders

\* Line 264: the headers of the replay.
replay_headers(kwargsHeaders, tokenValue) == SetItem(kwargsHeaders, "X-Auth-Token", tokenValue)

\* A request() that reauthenticates on every error status.
needs_reauth_any_error(status) == status >= 400

\* Line 262: whether the response makes request() reauthenticate.
needs_reauth(status) == status = 401

\* An end of request() that lets the ValueError of resp.json() out.
decode_strict(resp) ==
    IF raises_for_status(resp.status)
    THEN Result("request", "", "raise", "HTTPError", resp.status, None, FALSE)
    ELSE IF resp.body = "json"
    THEN Result("request", "", "return", "", resp.status, Some("json"), FALSE)
    ELSE Result("request", "", "raise", "ValueError", resp.status, None, FALSE)

\* Lines 267-273: the end of request() on its last response: raise_for_status, then the
\* decoded body, or None when resp.json() raises ValueError.
decode(resp) ==
    IF raises_for_status(resp.status)
    THEN Result("request", "", "raise", "HTTPError", resp.status, None, FALSE)
    ELSE IF resp.body = "json"
    THEN Result("request", "", "return", "", resp.status, Some("json"), FALSE)
    ELSE Result("request", "", "return", "", resp.status, None, FALSE)

\* request(url, method, data, headers, params) is called by the operation whose entry
\* is op_entry: lines 240-261, up to the first send.
request_send(op_entry, url, method, data, headers, params, aresp) ==
    LET g == get_token(_token, read_service, ingest_service, aresp)
        sent == Sent(url, method, params,
                     IF data # None THEN Some(dumps(data[1])) ELSE None)
    IN
    /\ _token' = g.token
    /\ read_service' = g.read_service
    /\ ingest_service' = g.ingest_service
    /\ hist' = AfterGet(hist, g)
    /\ entry' = op_entry
    /\ catalog_seen' = AfterExchange(catalog_seen, g, aresp)
    /\ IF g.kind = "raise"
       THEN /\ pc' = "idle"
            /\ kwargs_headers' = base_headers
            /\ wire' = g.sent
            /\ result' = Result("request", "", "raise", g.exc, g.status, None, FALSE)
       ELSE /\ pc' = "await1"
            /\ kwargs_headers' = request_headers(g.value[1], headers)
            /\ wire' = g.sent
                         \o <<DataMessage(request_headers(g.value[1], headers)) @@ sent>>
            /\ result' = Pending
    /\ UNCHANGED <<phase, _read_url, _ingest_url, region>>

\* The url of a direct call of request().
RequestUrl == "https://iad1.example/v2.0/tenant/metrics"

\* A direct call of request(url, headers=headers): the method is the default 'get',
\* data and params are left out.
RequestSend(AR) ==
    /\ phase = "ready" /\ pc = "idle"
    /\ \E headers \in CallerHeaders, aresp \in Asked(_token, AR) :
         request_send(Snapshot(headers), RequestUrl, "get", None, headers, None, aresp)

\* The first response arrives: lines 261-273.
RequestReply1(AR) ==
    /\ pc = "await1"
    /\ \E resp \in DataResponses :
         LET w == Answered(wire, resp) IN
         IF needs_reauth(resp.status)
         THEN \E aresp \in AR :
              LET g == get_token(invalidate_token(_token), read_service, ingest_service, aresp) IN
              /\ _token' = g.token
              /\ read_service' = g.read_service
              /\ ingest_service' = g.ingest_service
              /\ hist' = AfterGet(AfterInvalidate(hist, _token), g)
              /\ catalog_seen' = AfterExchange(catalog_seen, g, aresp)
              /\ IF g.kind = "raise"
                 THEN /\ pc' = "idle"
                      /\ kwargs_headers' = base_headers
                      /\ wire' = w \o g.sent
                      /\ result' = Result("request", "", "raise", g.exc, g.status, None, FALSE)
                 ELSE /\ pc' = "await2"
                      /\ kwargs_headers' = replay_headers(kwargs_headers, g.value[1])
                      /\ wire' = w \o g.sent
                                   \o <<DataMessage(replay_headers(kwargs_headers, g.value[1]))
                                        @@ SentOf(w[Len(w)])>>
                      /\ result' = Pending
         ELSE /\ pc' = "idle"
              /\ kwargs_headers' = base_headers
              /\ wire' = w
              /\ result' = decode(resp)
              /\ UNCHANGED <<_token, read_service, ingest_service, hist, catalog_seen>>
    /\ UNCHANGED <<phase, _read_url, _ingest_url, region, entry>>

\* A request() that reauthenticates and replays as long as the answer is 401.
RequestReply2Again ==
    /\ pc = "await2"
    /\ \E resp \in DataResponses :
         IF needs_reauth(resp.status)
         THEN \E aresp \in RequestAuthResponses :
              LET g == get_token(invalidate_token(_token), read_service, ingest_service, aresp) IN
              /\ g.kind = "return"
              /\ _token' = g.token
              /\ wire' = Answered(wire, resp) \o g.sent
                            \o <<DataMessage(replay_headers(kwargs_headers, g.value[1]))>>
              /\ UNCHANGED <<pc, kwargs_headers, result, hist>>
         ELSE /\ wire' = Answered(wire, resp)
              /\ result' = decode(resp)
              /\ pc' = "idle"
              /\ kwargs_headers' = base_headers
              /\ UNCHANGED <<_token, hist>>
    /\ UNCHANGED <<phase, read_service, ingest_service, _read_url, _ingest_url,
                   region, entry, catalog_seen>>

\* The response to the replay arrives: lines 265-273.
RequestReply2 ==
    /\ pc = "await2"
    /\ \E resp \in DataResponses :
         /\ wire' = Answered(wire, resp)
         /\ result' = decode(resp)
    /\ pc' = "idle"
    /\ kwargs_headers' = base_headers
    /\ UNCHANGED <<phase, _token, read_service, ingest_service, _read_url, _ingest_url,
                   region, entry, hist, catalog_seen>>

----------------------------------------------------------------------------
(* Datapoint (client.py 9-44): a dict built from the constructor's arguments. *)

MaxTtl == 3

MaxClock == 2

\* Python's "not x" on an optional integer: None and 0 are false values.
not_int(x) == x = None \/ x[1] = 0

\* Python's "not x" on an optional string: None and '' are false values.
not_str(x) == x = None \/ x[1] = ""

max(a, b) == IF a >= b THEN a ELSE b

\* utils.time_in_ms on a clock that reads seconds_now seconds since the epoch.
time_in_ms(seconds_now) == seconds_now * 1000

default_ttl == 60 * 60 * 24 * 180

\* The ttl of a datapoint without the clamp of line 38.
ttl_unclamped(ttl_seconds) ==
    IF not_int(ttl_seconds) THEN default_ttl ELSE ttl_seconds[1]

\* Lines 36-38: the default for a false ttl_seconds, then the clamp at 0.
ttl_in_seconds(ttl_seconds) ==
    max(IF not_int(ttl_seconds) THEN default_ttl ELSE ttl_seconds[1], 0)

\* Lines 27-43: the dict the constructor leaves.
Datapoint(name, value, collection_time, ttl_seconds, unit, seconds_now) ==
    [metricValue |-> value,
     metricName |-> name,
     collectionTime |-> IF collection_time = None THEN time_in_ms(seconds_now)
                        ELSE collection_time[1],
     ttlInSeconds |-> ttl_in_seconds(ttl_seconds)]
    @@ (IF not_str(unit) THEN <<>> ELSE [unit |-> unit[1]])

MetricNames == {"cpu.load", "mem.free"}

MetricValues == {0, 1}

CollectionTimes == {None} \cup {Some(t) : t \in 0 .. MaxClock}

TtlSeconds == {None} \cup {Some(t) : t \in ((0 - MaxTtl) .. MaxTtl) \cup {default_ttl + 1}}

Units == {None, Some(""), Some("ms")}

\* The arguments of a Datapoint(...) call; None is an argument left out (or given as
\* None, which the constructor cannot tell apart).
DatapointArgs(name, value, collection_time, ttl_seconds, unit) ==
    [name |-> name, value |-> value, collection_time |-> collection_time,
     ttl_seconds |-> ttl_seconds, unit |-> unit]

\* Datapoint(name, value, collection_time, ttl_seconds, unit): the arguments and the
\* resulting dict are what the operation leaves to observe.
NewDatapoint ==
    \E name \in MetricNames, value \in MetricValues, collection_time \in CollectionTimes,
       ttl_seconds \in TtlSeconds, unit \in Units, seconds_now \in 1 .. MaxClock :
        /\ pc = "idle"
        /\ wire' = <<>>
        /\ result' = Result("Datapoint",
                            DatapointArgs(name, value, collection_time, ttl_seconds, unit),
                            "return", "", 0,
                            Some(Datapoint(name, value, collection_time, ttl_seconds, unit,
                                           seconds_now)),
                            FALSE)
        /\ entry' = NoEntry
        /\ UNCHANGED <<phase, _token, read_service, ingest_service, _read_url, _ingest_url,
                       region, pc, kwargs_headers, hist, catalog_seen>>

----------------------------------------------------------------------------
(* The convenience operations: find_metrics, ingest, get_metrics (client.py 275-317). *)

selectables == <<"average", "min", "max", "numPoints", "variance">>

RECURSIVE join_from(_, _, _)

\* sep.join(xs[i:]) after the items before i, of which there are some iff not first.
join_from(sep, xs, i) ==
    IF i > Len(xs) THEN ""
    ELSE (IF i > 1 THEN sep ELSE "") \o xs[i] \o join_from(sep, xs, i + 1)

\* Lines 100-101: the selectables that kwargs holds with a true value, joined by ','.
selects(kwargs) ==
    join_from(",", SelectSeq(selectables, LAMBDA x : x \in DOMAIN kwargs /\ kwargs[x]), 1)

\* Lines 113-122: the basic read parameters; resolution goes before points.
read_params(start, stop, points, resolution) ==
    LET params == ("from" :> start) @@ ("to" :> stop) IN
    IF ~not_str(resolution) THEN SetItem(params, "resolution", resolution[1])
    ELSE IF ~not_int(points) THEN SetItem(params, "points", points[1])
    ELSE params

\* Lines 312-316 of get_metrics: the parameters of the request.
get_metrics_params(start, stop, points, resolution, kwargs) ==
    LET params == read_params(start, stop, points, resolution)
        sel == IF DOMAIN kwargs # {} THEN Some(selects(kwargs)) ELSE None
    IN IF ~not_str(sel) THEN SetItem(params, "select", sel[1]) ELSE params

\* Lines 293-294 of ingest with the test left out: every value is wrapped.
as_list_always(data) == PyList(<<data>>)

\* Lines 293-294 of ingest: a value that is not a list becomes a list of one item.
as_list(data) == IF ~is_list(data) THEN PyList(<<data>>) ELSE data

\* A read_url() that asks for the region of the constructor.
self_read_url_regional == read_url(_read_url, read_service, region)

\* self.read_url(): the region is the default of the signature (line 182).
self_read_url == read_url(_read_url, read_service, "IAD")

\* self.ingest_url(): the region is the default of the signature (line 196).
self_ingest_url == ingest_url(_ingest_url, ingest_service, "IAD")

Queries == {"*", "cpu.*"}

\* The data argument of ingest: a datapoint, and lists of none and of two datapoints.
IngestData ==
    LET d1 == PyDict(Datapoint("cpu.load", 1, Some(0), None, None, 1))
        d2 == PyDict(Datapoint("mem.free", 0, Some(1), Some(MaxTtl), Some("ms"), 1))
    IN {d1, PyList(<<>>), PyList(<<d1, d2>>)}

\* The metrics argument of get_metrics.
MetricLists == {PyList(<<PyStr("cpu.load"), PyStr("mem.free")>>)}

\* The keyword arguments of get_metrics: none, and a false and a true selectable.
SelectKwargs == {<<>>, ("max" :> FALSE) @@ ("min" :> TRUE)}

\* The points and resolution arguments of get_metrics: neither, points, and both.
PointsAndResolution == {<<None, None>>, <<Some(10), None>>, <<Some(10), Some("FULL")>>}

\* A convenience operation that resolved its base url (outcome u) and calls
\* request(base + path, method, data=data, params=params), or raises what the
\* resolution raised.
convenience(call, u, path, method, data, params, AR) ==
    /\ phase = "ready" /\ pc = "idle"
    /\ IF u.kind = "raise"
       THEN /\ result' = Result(call.op, "", "raise", u.exc, 0, None, u.catalog_read)
            /\ wire' = <<>>
            /\ entry' = [Snapshot(None) EXCEPT !.call = call]
            /\ UNCHANGED <<phase, _token, read_service, ingest_service, _read_url,
                           _ingest_url, region, pc, kwargs_headers, hist, catalog_seen>>
       ELSE \E aresp \in Asked(_token, AR) :
                request_send([Snapshot(None) EXCEPT !.call = call],
                             percent_s(u.value) \o path, method, data, None, params, aresp)

\* find_metrics(query): lines 283-285.
FindMetrics(AR) ==
    \E query \in Queries :
        convenience(Call("find_metrics", query), self_read_url, "/" \o "metrics/search",
                    "get", None, Some("query" :> query), AR)

\* ingest(data): lines 293-297.
Ingest(AR) ==
    \E data \in IngestData :
        convenience(Call("ingest", data), self_ingest_url, "/ingest",
                    "post", Some(as_list(data)), None, AR)

\* get_metrics(start, stop, metrics, points, resolution, **kwargs): lines 311-317.
GetMetrics(AR) ==
    \E metrics \in MetricLists, pr \in PointsAndResolution, kwargs \in SelectKwargs :
        convenience(Call("get_metrics",
                         [metrics |-> metrics, points |-> pr[1],
                          resolution |-> pr[2], kwargs |-> kwargs]),
                    self_read_url, "/views", "post", Some(metrics),
                    Some(get_metrics_params(0, 60, pr[1], pr[2], kwargs)), AR)

----------------------------------------------------------------------------
(* The specifications. *)

\* The client under request(): the token operations and the request protocol.
Next ==
    \/ Construct(RequestAuthResponses)
    \/ GetToken(RequestAuthResponses)
    \/ InvalidateToken
    \/ RequestSend(RequestAuthResponses)
    \/ RequestReply1(RequestAuthResponses)
    \/ RequestReply2

Spec == Init /\ [][Next]_vars

\* The client under URL resolution: the token operations on every catalog, and the
\* resolution of the read and ingest URLs.
NextCatalog ==
    \/ Construct(CatalogAuthResponses)
    \/ GetToken(CatalogAuthResponses)
    \/ InvalidateToken
    \/ ReadUrl
    \/ IngestUrl

SpecCatalog == Init /\ [][NextCatalog]_vars

\* The client under the convenience operations.
NextCalls ==
    \/ Construct(CallAuthResponses)
    \/ FindMetrics(CallAuthResponses)
    \/ Ingest(CallAuthResponses)
    \/ GetMetrics(CallAuthResponses)
    \/ RequestReply1(CallAuthResponses)
    \/ RequestReply2

SpecCalls == Init /\ [][NextCalls]_vars

\* The construction of datapoints, which needs no client.
NextDatapoint == NewDatapoint

SpecDatapoint == Init /\ [][NextDatapoint]_vars

----------------------------------------------------------------------------
(* Reading the wire of an operation. *)

\* The positions of the data-plane requests and of the identity exchanges.
DataIdx == {i \in DOMAIN wire : wire[i].dest = "data"}

AuthIdx == {i \in DOMAIN wire : wire[i].dest = "auth"}

\* The position of the first data-plane request (0 when there is none).
FirstData == IF DataIdx = {} THEN 0 ELSE CHOOSE i \in DataIdx : \A j \in DataIdx : i <= j

\* The position of the last data-plane request (0 when there is none).
LastData == IF DataIdx = {} THEN 0 ELSE CHOOSE i \in DataIdx : \A j \in DataIdx : j <= i

\* A request() call has returned or raised.
RequestDone == result.op = "request" /\ result.kind \in {"return", "raise"}

\* A status of success for raise_for_status.
Success(status) == status >= 200 /\ status < 400

----------------------------------------------------------------------------
(* The claims on the token and on request(), checked under Spec. *)

\* C1: single retry on 401.  A first data-plane answer of 401 is followed by one
\* identity exchange and, when that exchange succeeds, by one replay whose
\* X-Auth-Token is the token id of that exchange; when the replay is answered with a
\* success status the call returns, having sent exactly two data-plane requests with
\* exactly one identity exchange between them.
C1_SingleRetryOn401 ==
    (result.op = "request" /\ FirstData # 0 /\ wire[FirstData].status = 401) =>
        /\ Len(wire) > FirstData
        /\ wire[FirstData + 1].dest = "auth"
        /\ wire[FirstData + 1].ok =>
              /\ Len(wire) = FirstData + 2
              /\ wire[FirstData + 2].dest = "data"
              /\ wire[FirstData + 2].headers["X-Auth-Token"] = wire[FirstData + 1].id[1]
              /\ _token = wire[FirstData + 1].id
        /\ (RequestDone /\ LastData # FirstData /\ Success(wire[LastData].status)) =>
              /\ result.kind = "return"
              /\ Cardinality(DataIdx) = 2
              /\ Cardinality({i \in AuthIdx : FirstData < i /\ i < LastData}) = 1

\* C1's case: a call that returned after a 401 and a replay answered 200, the replay
\* carrying a token other than the one of the first attempt.
C1_Witness ==
    /\ RequestDone /\ result.kind = "return"
    /\ Cardinality(DataIdx) = 2
    /\ wire[FirstData].status = 401
    /\ wire[LastData].status = 200
    /\ wire[FirstData].headers["X-Auth-Token"] # wire[LastData].headers["X-Auth-Token"]
    /\ wire[FirstData].headers["X-Auth-Token"] \in Tokens

\* C2: no infinite reauthentication loop.  No call sends a third data-plane request,
\* a call is over once its replay is answered, and a call whose two data-plane
\* requests are both answered 401 raises the HTTP error of status 401 after exactly
\* one reauthentication.
C2_NoReauthLoop ==
    /\ Cardinality(DataIdx) <= 2
    /\ (result.op = "request" /\ Cardinality(DataIdx) = 2 /\ wire[LastData].status # 0)
          => RequestDone /\ pc = "idle"
    /\ (RequestDone /\ Cardinality(DataIdx) = 2
        /\ wire[FirstData].status = 401 /\ wire[LastData].status = 401) =>
          /\ result.kind = "raise"
          /\ result.exc = "HTTPError"
          /\ result.status = 401
          /\ Cardinality({i \in AuthIdx : i > FirstData}) = 1

\* C2's case: a call that ended on the 401 answered to its replay.
C2_Witness ==
    /\ RequestDone /\ result.kind = "raise" /\ result.status = 401
    /\ Cardinality(DataIdx) = 2
    /\ wire[FirstData].status = 401
    /\ wire[LastData].status = 401

\* C3: token caching.  A get_token call made while a token is cached sends nothing
\* and returns the cached token; a get_token call that returns after an earlier one
\* returned, with no invalidation between them, sends nothing and returns the same
\* token; a get_token call that returns from an empty cache made exactly one identity
\* exchange.  request() gets its token the same way: with a token cached its first
\* message is the data-plane request.
C3_TokenCaching ==
    /\ (result.op = "get_token" /\ entry.token # None) =>
          /\ wire = <<>>
          /\ result.kind = "return"
          /\ result.value = entry.token
          /\ _token = entry.token
    /\ (result.op = "get_token" /\ result.kind = "return" /\ entry.lastGot # None) =>
          /\ wire = <<>>
          /\ result.value = entry.lastGot
    /\ (result.op = "get_token" /\ result.kind = "return" /\ entry.token = None) =>
          /\ Len(wire) = 1
          /\ wire[1].dest = "auth"
    /\ (result.op = "request" /\ entry.token # None) =>
          /\ wire # <<>>
          /\ wire[1].dest = "data"

\* C3's case: the second of two get_token calls with no invalidation between them.
C3_Witness ==
    /\ result.op = "get_token" /\ result.kind = "return"
    /\ entry.lastGot # None
    /\ result.value = entry.lastGot
    /\ wire = <<>>

\* C4: invalidation forces refresh.  The first get_token call after invalidate_token()
\* makes an identity exchange, and what it returns is the token id of that exchange,
\* which is then the cached token.
C4_InvalidationForcesRefresh ==
    (result.op = "get_token" /\ entry.invalidated) =>
        /\ entry.token = None
        /\ Len(wire) = 1
        /\ wire[1].dest = "auth"
        /\ result.kind = "return" =>
              /\ result.value = wire[1].id
              /\ _token = wire[1].id

\* C4's case: a token was cached, invalidate_token() dropped it, and the next get_token
\* returned the token of a new exchange.
C4_Witness ==
    /\ result.op = "get_token" /\ result.kind = "return"
    /\ entry.invalidated /\ entry.hadToken
    /\ Len(wire) = 1
    /\ result.value = wire[1].id

\* C9 as amended: non-401 errors are never retried.  A call whose first data-plane
\* answer is an error status other than 401 raises the HTTP error of that status after
\* exactly one data-plane request; nothing is sent after that request, the only
\* identity exchange of the call is the one that gets a token when none was cached at
\* entry, and the cached token is the one the request was sent with.
C9_NoRetryOnOtherErrors ==
    (RequestDone /\ FirstData # 0
     /\ raises_for_status(wire[FirstData].status) /\ wire[FirstData].status # 401) =>
        /\ result.kind = "raise"
        /\ result.exc = "HTTPError"
        /\ result.status = wire[FirstData].status
        /\ Cardinality(DataIdx) = 1
        /\ Len(wire) = FirstData
        /\ IF entry.token # None
           THEN AuthIdx = {} /\ _token = entry.token
           ELSE AuthIdx = {1} /\ wire[1].ok /\ _token = wire[1].id

\* C9's case: a call that got its token at entry and ended on a 500.
C9_Witness ==
    /\ RequestDone /\ result.kind = "raise" /\ result.status = 500
    /\ Cardinality(DataIdx) = 1
    /\ wire[FirstData].status = 500
    /\ entry.token = None
    /\ AuthIdx = {1}

\* C9 as claimed: such a call performs no identity exchange at all and leaves the
\* cached token as it was when the call was made.
C9_AsClaimed ==
    (RequestDone /\ FirstData # 0
     /\ raises_for_status(wire[FirstData].status) /\ wire[FirstData].status # 401) =>
        /\ result.kind = "raise"
        /\ result.exc = "HTTPError"
        /\ result.status = wire[FirstData].status
        /\ Cardinality(DataIdx) = 1
        /\ AuthIdx = {}
        /\ _token = entry.token

\* C10 as claimed: caller header precedence.  In every data-plane request of a call,
\* the replay included, each header the caller gave has the caller's value.
C10_CallerHeaderPrecedence ==
    (result.op = "request" /\ entry.headers # None) =>
        \A i \in DataIdx : \A k \in DOMAIN entry.headers[1] :
            k \in DOMAIN wire[i].headers /\ wire[i].headers[k] = entry.headers[1][k]

\* C11: invalidate_token() is idempotent and touches only the token.  Every call leaves
\* the token absent, a further call on that cache leaves it absent again, and the cached
\* read and ingest entries, the URL overrides and the region are as they were before.
C11_InvalidateTouchesOnlyToken ==
    [][(result'.op = "invalidate_token") =>
          /\ _token' = None
          /\ invalidate_token(_token') = _token'
          /\ UNCHANGED <<read_service, ingest_service, _read_url, _ingest_url, region,
                         catalog_seen, phase, pc>>]_vars

\* C11's case: invalidate_token() dropped a cached token of a client that holds both
\* catalog entries.
C11_Witness ==
    /\ result.op = "invalidate_token"
    /\ hist.hadToken
    /\ _token = None
    /\ read_service # None /\ ingest_service # None

\* C12 as amended: the constructor makes the first identity exchange.  Before it, the
\* client holds no token and has sent nothing; construction makes exactly one exchange,
\* and a constructed client holds the token id of that exchange.
C12_ConstructorAuthenticates ==
    /\ phase = "new" => (_token = None /\ wire = <<>> /\ result.op = "none")
    /\ result.op = "__init__" =>
          /\ Len(wire) = 1
          /\ wire[1].dest = "auth"
          /\ phase = "ready" <=> result.kind = "return"
          /\ phase = "ready" => (_token # None /\ _token = wire[1].id)

\* C12's case: a client right after its construction, holding a token.
C12_Witness ==
    /\ result.op = "__init__" /\ phase = "ready"
    /\ _token \in {Some(t) : t \in Tokens}
    /\ AuthIdx = {1}

\* C12 as claimed: a newly constructed client holds no token and has made no identity
\* exchange.
C12_AsClaimed ==
    (result.op = "__init__" /\ phase = "ready") => (_token = None /\ AuthIdx = {})

\* C13: an empty or non-JSON body on success is not an error.  A call that ends on a
\* data-plane answer with a success status returns: the decoded value when the body is
\* JSON, None otherwise; and the step that decodes leaves the token and the cached
\* catalog entries as they were.
C13_BodyOnSuccess ==
    [][(pc # "idle" /\ pc' = "idle"
        /\ wire'[Len(wire')].dest = "data" /\ Success(wire'[Len(wire')].status)) =>
          /\ result'.kind = "return"
          /\ result'.value = IF wire'[Len(wire')].body = "json" THEN Some("json") ELSE None
          /\ UNCHANGED <<_token, read_service, ingest_service, catalog_seen>>]_vars

\* C13's case: a call returned None on a 200 whose body is empty or is not JSON.
C13_Witness ==
    /\ RequestDone /\ result.kind = "return" /\ result.value = None
    /\ wire[Len(wire)].dest = "data"
    /\ wire[Len(wire)].status = 200
    /\ wire[Len(wire)].body \in {"", "notjson"}

\* C16 as claimed: a failed identity exchange caches nothing.  After a get_token() that
\* raised, the token is still absent.
C16_FailedExchangeCachesNothing ==
    (result.op = "get_token" /\ result.kind = "raise") => _token = None

\* C17 as claimed: every unauthorized response invalidates the token.  After a call that
\* ended on a 401 from the data plane, the replay included, no token is cached.
C17_Every401Invalidates ==
    (RequestDone /\ LastData # 0 /\ LastData = Len(wire) /\ wire[LastData].status = 401)
        => _token = None

\* The identity exchange that follows the first data-plane request failed.
ReauthFailed ==
    /\ FirstData # 0
    /\ wire[FirstData].status = 401
    /\ Len(wire) > FirstData
    /\ wire[FirstData + 1].dest = "auth"
    /\ ~wire[FirstData + 1].ok

\* C18 as claimed: a failed reauthentication aborts the call.  The call raises, with
\* exactly one data-plane request and exactly one identity exchange after it, and the
\* token is absent.
C18_ReauthFailureAborts ==
    (result.op = "request" /\ ReauthFailed) =>
        /\ RequestDone
        /\ result.kind = "raise"
        /\ Cardinality(DataIdx) = 1
        /\ Len(wire) = FirstData + 1
        /\ _token = None

\* What C18 keeps on the code: the call is aborted with no replay and no second exchange.
C18_AbortWithoutReplay ==
    (result.op = "request" /\ ReauthFailed) =>
        /\ RequestDone
        /\ result.kind = "raise"
        /\ Cardinality(DataIdx) = 1
        /\ Len(wire) = FirstData + 1

----------------------------------------------------------------------------
(* The claims on the catalog and on URL resolution, checked under SpecCatalog. *)

\* No endpoint of the service is of the region.
NoEndpointOf(service, reg) ==
    \A i \in DOMAIN service[1].endpoints : service[1].endpoints[i].region # reg

\* C5 as claimed: endpoint resolution fails on a region mismatch.  With no override and a
\* catalog entry that has no endpoint of the requested region, read_url and ingest_url
\* raise; they do not return None.
C5_RegionMismatchFails ==
    /\ (result.op = "read_url" /\ _read_url = None /\ read_service # None
        /\ NoEndpointOf(read_service, result.arg)) => result.kind = "raise"
    /\ (result.op = "ingest_url" /\ _ingest_url = None /\ ingest_service # None
        /\ NoEndpointOf(ingest_service, result.arg)) => result.kind = "raise"

\* The cached entry is the one the catalog held: none when the catalog has no entry of
\* the name, one of its entries of the name otherwise.
HeldBy(service, entries) ==
    IF service = None THEN entries = {} ELSE service[1] \in entries

\* C6 as claimed: the catalog is replaced, not merged.  After a successful identity
\* exchange the cached read and ingest entries are those of that exchange's catalog,
\* and none is cached for a service the catalog lacks.
C6_CatalogReplaced ==
    (result.op \in {"__init__", "get_token"} /\ wire # <<>> /\ wire[1].ok) =>
        /\ HeldBy(read_service, catalog_seen.reads)
        /\ HeldBy(ingest_service, catalog_seen.ingests)

\* C7: endpoint override precedence.  With an override configured, read_url and
\* ingest_url return it for every region and every catalog, never raise and never read
\* the cached catalog entry.
C7_OverridePrecedence ==
    /\ (result.op = "read_url" /\ _read_url # None) =>
          /\ result.kind = "return"
          /\ result.value = _read_url
          /\ ~result.catalog_read
    /\ (result.op = "ingest_url" /\ _ingest_url # None) =>
          /\ result.kind = "return"
          /\ result.value = _ingest_url
          /\ ~result.catalog_read

\* C7's case: ingest_url returned the override for a region of which the cached entry
\* has no endpoint, and read_url returned the override with no entry cached at all.
C7_Witness ==
    \/ /\ result.op = "ingest_url" /\ _ingest_url # None
       /\ ingest_service # None /\ NoEndpointOf(ingest_service, result.arg)
       /\ result.value = _ingest_url
    \/ /\ result.op = "read_url" /\ _read_url # None
       /\ read_service = None /\ _token # None
       /\ result.value = _read_url

\* C8: endpoint resolution fails on a missing service.  With no override and no cached
\* entry for the kind, read_url and ingest_url raise instead of returning a value.
C8_MissingServiceFails ==
    /\ (result.op = "read_url" /\ _read_url = None /\ read_service = None) =>
          result.kind = "raise" /\ result.exc = "No read service found"
    /\ (result.op = "ingest_url" /\ _ingest_url = None /\ ingest_service = None) =>
          result.kind = "raise" /\ result.exc = "No ingest service found"

\* C8's case: the catalog of the authentication had no cloudMetrics entry, and read_url
\* raised.
C8_Witness ==
    /\ result.op = "read_url" /\ result.kind = "raise"
    /\ _read_url = None /\ read_service = None
    /\ phase = "ready" /\ catalog_seen.reads = {} /\ catalog_seen.ingests # {}

----------------------------------------------------------------------------
(* Claims on Datapoint, checked under SpecDatapoint. *)

\* C14: default TTL and clamping.  A datapoint built without ttl_seconds has
\* ttlInSeconds = 15552000, one built with a negative ttl_seconds has ttlInSeconds = 0,
\* and ttlInSeconds is never negative.
C14_DefaultTtlAndClamp ==
    result.op = "Datapoint" =>
        /\ result.value[1].ttlInSeconds >= 0
        /\ result.arg.ttl_seconds = None => result.value[1].ttlInSeconds = 15552000
        /\ (result.arg.ttl_seconds # None /\ result.arg.ttl_seconds[1] < 0)
              => result.value[1].ttlInSeconds = 0

\* C14's case: a datapoint was built with a negative ttl_seconds and holds 0.
C14_Witness ==
    /\ result.op = "Datapoint"
    /\ result.arg.ttl_seconds # None
    /\ result.arg.ttl_seconds[1] < 0
    /\ result.value[1].ttlInSeconds = 0

\* C14's other case: a datapoint was built without ttl_seconds and holds the default.
C14_WitnessDefault ==
    /\ result.op = "Datapoint"
    /\ result.arg.ttl_seconds = None
    /\ result.value[1].ttlInSeconds = 15552000

\* C19 as claimed: every ttl_seconds >= 0 given explicitly, 0 included, is the
\* datapoint's ttlInSeconds.
C19_ExplicitTtlKept ==
    (result.op = "Datapoint" /\ result.arg.ttl_seconds # None
     /\ result.arg.ttl_seconds[1] >= 0)
        => result.value[1].ttlInSeconds = result.arg.ttl_seconds[1]

\* What the code does keep: every explicit ttl_seconds > 0.
C19_PositiveTtlKept ==
    (result.op = "Datapoint" /\ result.arg.ttl_seconds # None
     /\ result.arg.ttl_seconds[1] > 0)
        => result.value[1].ttlInSeconds = result.arg.ttl_seconds[1]

----------------------------------------------------------------------------
(* Claims on the convenience operations, checked under SpecCalls. *)

\* A step in which the operation op sends its first data-plane request.
SendsFirst(op) == pc = "idle" /\ pc' = "await1" /\ entry'.call.op = op

\* C15: ingest payload normalisation.  The request ingest(data) sends is a POST to the
\* ingest base URL followed by /ingest; its body is the JSON text of the one-element
\* array [data] when data is not a list, and of data itself when data is a list; the
\* replay after a 401 sends the same url, method and body.
C15_IngestPayload ==
    [][/\ SendsFirst("ingest") =>
            LET m == wire'[Len(wire')]
                data == entry'.call.arg
                base == IF _ingest_url # None THEN _ingest_url
                        ELSE url_for_region(ingest_service[1], "IAD")
            IN /\ m.dest = "data"
               /\ m.method = "post"
               /\ m.url = percent_s(base) \o "/ingest"
               /\ data.type = "list" => m.data = Some(dumps(data))
               /\ data.type # "list" => m.data = Some("[" \o dumps(data) \o "]")
       /\ (pc = "await1" /\ pc' = "await2" /\ entry.call.op = "ingest") =>
            SentOf(wire'[Len(wire')]) = SentOf(wire[Len(wire)])]_vars

\* C15's case: ingest was given one datapoint, and a list, and the request went out.
C15_Witness ==
    /\ entry.call.op = "ingest" /\ pc = "await2"
    /\ entry.call.arg.type = "dict"
    /\ wire[LastData].method = "post"
    /\ wire[LastData].url = "https://iad.ingest.example/ingest"
    /\ wire[LastData].data = Some("[" \o dumps(entry.call.arg) \o "]")

\* The suffix each convenience operation appends to its base URL.
PathOf(op) ==
    CASE op = "find_metrics" -> "/metrics/search"
      [] op = "ingest" -> "/ingest"
      [] op = "get_metrics" -> "/views"

\* C20: the region given at construction does not influence the convenience
\* operations.  The URL of the request is the override when there is one, and else the
\* first endpoint of the service in region 'IAD', whatever self.region is; the
\* operation leaves self.region alone.
C20_ConstructionRegionIgnored ==
    [][\A op \in {"find_metrics", "ingest", "get_metrics"} :
         SendsFirst(op) =>
            LET override == IF op = "ingest" THEN _ingest_url ELSE _read_url
                service == IF op = "ingest" THEN ingest_service ELSE read_service
                base == IF override # None THEN override
                        ELSE url_for_region(service[1], "IAD")
            IN /\ wire'[Len(wire')].url = percent_s(base) \o PathOf(op)
               /\ region' = region]_vars

\* C20's case: a client constructed for ORD, whose catalog has another read endpoint in
\* ORD, sent a read request to the IAD endpoint.
C20_Witness ==
    /\ region = "ORD" /\ _read_url = None
    /\ entry.call.op \in {"find_metrics", "get_metrics"}
    /\ read_service # None
    /\ url_for_region(read_service[1], "ORD") = Some("https://ord.read.example")
    /\ LastData # 0
    /\ wire[LastData].url \in {"https://iad.read.example/metrics/search",
                               "https://iad.read.example/views"}

====
